---- MODULE Spec2Model ----
(***************************************************************************)
(* The data-alignment pipeline of trackeval/mot_utils.py:                  *)
(* load_and_preprocess_data = _load_raw_file (twice),                      *)
(* _combine_gt_and_tracker, _preprocess_data, and the overlap matrix       *)
(* builder _calculate_box_ious.                                            *)
(*                                                                         *)
(* Numbers.  Every field of a row is a float64 after the loader.  The      *)
(* model holds the float n/Scale as the integer n, so that fractional      *)
(* fields (a flag of 0.5, a confidence of 0.5) exist and int()/astype(int) *)
(* truncate.  Ids and frame keys, once truncated, are plain integers.  An  *)
(* overlap score is the exact quotient intersection/union, held in lowest  *)
(* terms as <<numerator, denominator>>.                                    *)
(*                                                                         *)
(* Fields beyond the seventh may be text: such a field is Number(n) or     *)
(* Text, the first seven fields of the rows of the model being numbers.    *)
(*                                                                         *)
(* Arrays.  A numpy array is [shape |-> <<..>>, v |-> <<..>>]; a Python    *)
(* None is the record None.                                                *)
(***************************************************************************)
EXTENDS Integers, Sequences, FiniteSets, TLC

VARIABLES
    gt_file,           \* the csv rows of the file at gt_path (line 9)
    tracker_file,      \* the csv rows of the file at tracker_path (line 10)
    raw_gt_data,       \* line 9: frame number -> rows
    raw_tracker_data,  \* line 10: frame number -> rows
    num_timesteps,     \* line 12
    data,              \* lines 60-67, 125-128: the dict _preprocess_data builds
    t,                 \* the loop variable of lines 69 and 130
    pc,                \* the position in the call of load_and_preprocess_data
    error,             \* the exception that ended the call, or "none"
    boxesA, boxesB,    \* two box sets handed to _calculate_box_ious
    iouAB, iouBA,      \* its results for (A, B) and for (B, A), or None
    matched,           \* lines 107-110: the locals match_rows, match_cols, as
                       \* the set of accepted <<row, column>> pairs
    order              \* when the frames are taken in any order: the
                       \* timesteps in the order their arrays were built
                       \* (frames) and their counts reduced (counts)

vars == <<gt_file, tracker_file, raw_gt_data, raw_tracker_data,
          num_timesteps, data, t, pc, error, boxesA, boxesB, iouAB, iouBA,
          matched, order>>

\* no timestep taken yet
NoOrder == [frames |-> <<>>, counts |-> <<>>]

pipelineVars == <<gt_file, tracker_file, raw_gt_data, raw_tracker_data,
                  num_timesteps, data, t, pc, error, matched, order>>

iouVars == <<boxesA, boxesB, iouAB, iouBA>>

----------------------------------------------------------------------------
(* Bounds of the model *)

\* a field value v is held as the integer v * Scale
Scale == 2

\* frame numbers of the input rows are 1..MaxFrame
MaxFrame == 2

\* each input file holds at most MaxRows lines
MaxRows == 2

\* each box set handed to the overlap builder holds at most MaxBoxes boxes
MaxBoxes == 2

----------------------------------------------------------------------------
(* Values *)

None == [none |-> TRUE]

Min(a, b) == IF a <= b THEN a ELSE b

Max(a, b) == IF a >= b THEN a ELSE b

Abs(a) == IF a >= 0 THEN a ELSE -a

RECURSIVE GCD(_, _)
GCD(a, b) == IF b = 0 THEN a ELSE GCD(b, a % b)

\* the float quotient n / d, in lowest terms; a zero divisor is kept as it is
Divide(n, d) ==
    IF d = 0 THEN <<n, 0>>
    ELSE LET g == GCD(Abs(n), Abs(d))
             s == IF d < 0 THEN -1 ELSE 1
         IN  <<(s * n) \div g, (s * d) \div g>>

\* int(x) and ndarray.astype(int): truncation toward zero
ToInt(x) == IF x >= 0 THEN x \div Scale ELSE -((-x) \div Scale)

\* x <= 0 + np.finfo('float').eps, for x a sum of products of two field
\* values: such an x is a multiple of 1/Scale^2, so it is <= eps iff it is <= 0
LeEps(x) == x <= 0

Array1(v) == [shape |-> <<Len(v)>>, v |-> v]

Array2(v, ncols) == [shape |-> <<Len(v), ncols>>, v |-> v]

\* np.zeros((n, m))
Zeros(n, m) == Array2([i \in 1..n |-> [j \in 1..m |-> <<0, 1>>]], m)

\* v[mask] for a boolean mask over the first axis
MaskSelect(v, mask) ==
    LET F[i \in 0..Len(v)] ==
            IF i = 0 THEN <<>>
            ELSE IF mask[i] THEN Append(F[i - 1], v[i]) ELSE F[i - 1]
    IN  F[Len(v)]

MaxOfSet(S, init) == CHOOSE m \in S \cup {init} : \A x \in S \cup {init} : x <= m

----------------------------------------------------------------------------
(* Overlap Matrix Builder: _calculate_box_ious, box_format = 'xywh' *)

\* lines 156-159: x1 = x0 + w, y1 = y0 + h
ToCorners(b) == <<b[1], b[2], b[1] + b[3], b[2] + b[4]>>

\* lines 163-164, one pair: elementwise minimum and maximum of the corners
min_(g, k) == [c \in 1..4 |-> Min(g[c], k[c])]

max_(g, k) == [c \in 1..4 |-> Max(g[c], k[c])]

\* a slip in the intersection width: the first box's x1 instead of the smaller x1
iw_first_x1(g, k) == Max(g[3] - max_(g, k)[1], 0)

\* line 167: intersection width, clipped at 0
iw(g, k) == Max(min_(g, k)[3] - max_(g, k)[1], 0)

\* line 168: intersection height, clipped at 0
ih(g, k) == Max(min_(g, k)[4] - max_(g, k)[2], 0)

\* line 169
ia(g, k) == iw(g, k) * ih(g, k)

\* lines 172-173: area of a box in corner form
area(c) == (c[3] - c[1]) * (c[4] - c[2])

\* a slip in the union: the intersection is not subtracted
union_no_subtract(g, k) == area(g) + area(k)

\* line 176
union(g, k) == area(g) + area(k) - ia(g, k)

\* lines 179-182: the intersection after the degenerate-area fix-ups
intersection(g, k) ==
    IF LeEps(area(g)) \/ LeEps(area(k)) \/ LeEps(union(g, k))
    THEN 0 ELSE ia(g, k)

\* a slip in the union fix-up: a non-positive union is left as it is
union_not_fixed(g, k) == union(g, k)

\* line 183: a non-positive union becomes 1.0 (Scale * Scale in area units)
union_fixed(g, k) ==
    IF LeEps(union(g, k)) THEN Scale * Scale ELSE union(g, k)

\* lines 152-186: the matrix of intersection / union, gt_dets and
\* tracker_dets being the sequences of xywh boxes
_calculate_box_ious(gt_dets, tracker_dets) ==
    [i \in 1..Len(gt_dets) |->
        [j \in 1..Len(tracker_dets) |->
            LET g == ToCorners(gt_dets[i])
                k == ToCorners(tracker_dets[j])
            IN  Divide(intersection(g, k), union_fixed(g, k))]]

----------------------------------------------------------------------------
(* Record Loader and Frame Indexer *)

\* utils.py line 21: empty rows are dropped (the rows of the model hold
\* numeric fields only, which line 29 turns into floats)
_load_simple_text_file(file) == SelectSeq(file, LAMBDA row : row # <<>>)

\* mot_utils.py lines 21-28: the rows of each frame, in file order, keyed by
\* int(row[0])
_load_raw_file(file) ==
    LET read_data == _load_simple_text_file(file)
        keys == {ToInt(read_data[i][1]) : i \in DOMAIN read_data}
    IN  [timestep \in keys |->
            SelectSeq(read_data, LAMBDA row : ToInt(row[1]) = timestep)]

\* a slip in the frame count: the tracker's frames are left out
_combine_gt_only(gt, tracker) == MaxOfSet(DOMAIN gt, 0)

\* lines 34-50: the largest key of either mapping, and 0 when both are empty
_combine_gt_and_tracker(gt, tracker) ==
    Max(MaxOfSet(DOMAIN gt, 0), MaxOfSet(DOMAIN tracker, 0))

----------------------------------------------------------------------------
(* Sequence Aligner: one iteration of the first loop of _preprocess_data *)

\* np.array(rows, dtype=np.float64) raises ValueError on rows of unequal length
Rectangular(rows) == \A i, j \in DOMAIN rows : Len(rows[i]) = Len(rows[j])

\* a field beyond the seventh: a token float() accepted (utils.py line 29),
\* or one it left as text (line 31)
Number(n) == [text |-> FALSE, v |-> n]

Text == [text |-> TRUE, v |-> 0]

\* np.array(rows, dtype=np.float64) raises ValueError on a field left as text
AllNumeric(rows) ==
    \A i \in DOMAIN rows : \A c \in 8..Len(rows[i]) : ~rows[i][c].text

\* lines 74, 91: np.array converts every field of every row, the columns
\* the aligner never reads included
Convertible(rows) == Rectangular(rows) /\ AllNumeric(rows)

\* time_data.shape[1]
NumCols(rows) == Len(rows[1])

\* time_data[:, c]
Column(rows, c) == [i \in DOMAIN rows |-> rows[i][c + 1]]

\* time_data[:, 2:6]
BoxColumns(rows) == [i \in DOMAIN rows |-> SubSeq(rows[i], 3, 6)]

HasGt(tt) == (tt + 1) \in DOMAIN raw_gt_data

HasTracker(tt) == (tt + 1) \in DOMAIN raw_tracker_data

\* a slip in the lookup: raw_gt_data[time_key] without the membership test
FrameError_unchecked_key(tt) ==
    IF ~HasGt(tt) THEN "KeyError"
    ELSE IF ~Convertible(raw_gt_data[tt + 1]) THEN "ValueError"
    ELSE IF HasTracker(tt) /\ ~Convertible(raw_tracker_data[tt + 1])
         THEN "ValueError"
    ELSE IF HasTracker(tt) /\ NumCols(raw_tracker_data[tt + 1]) < 7
         THEN "IndexError"
    ELSE "none"

\* lines 74, 91, 98: the exception the iteration for timestep tt raises, or
\* "none".  Line 98 reads column 6 of the tracker rows unconditionally.
FrameError(tt) ==
    IF HasGt(tt) /\ ~Convertible(raw_gt_data[tt + 1]) THEN "ValueError"
    ELSE IF HasTracker(tt) /\ ~Convertible(raw_tracker_data[tt + 1])
         THEN "ValueError"
    ELSE IF HasTracker(tt) /\ NumCols(raw_tracker_data[tt + 1]) < 7
         THEN "IndexError"
    ELSE "none"

\* lines 79, 86
GtDets(tt) ==
    IF HasGt(tt) THEN Array2(BoxColumns(raw_gt_data[tt + 1]), 4)
    ELSE Array2(<<>>, 4)

\* lines 80, 87
GtIds(tt) ==
    IF HasGt(tt)
    THEN Array1([i \in DOMAIN raw_gt_data[tt + 1] |->
                    ToInt(Column(raw_gt_data[tt + 1], 1)[i])])
    ELSE Array1(<<>>)

\* a slip in the flag column: the float flag is compared with 0 untruncated
gt_zero_marked_float(tt) ==
    IF HasGt(tt)
    THEN IF NumCols(raw_gt_data[tt + 1]) >= 7
         THEN Column(raw_gt_data[tt + 1], 6)
         ELSE [i \in DOMAIN raw_gt_data[tt + 1] |-> 1]
    ELSE <<>>

\* lines 81-84, 88: column 6 truncated to int when the rows have it, else ones
gt_zero_marked(tt) ==
    IF HasGt(tt)
    THEN IF NumCols(raw_gt_data[tt + 1]) >= 7
         THEN [i \in DOMAIN raw_gt_data[tt + 1] |->
                  ToInt(Column(raw_gt_data[tt + 1], 6)[i])]
         ELSE [i \in DOMAIN raw_gt_data[tt + 1] |-> 1]
    ELSE <<>>

\* lines 96, 100
TrackerDets(tt) ==
    IF HasTracker(tt) THEN Array2(BoxColumns(raw_tracker_data[tt + 1]), 4)
    ELSE Array2(<<>>, 4)

\* lines 97, 101
TrackerIds(tt) ==
    IF HasTracker(tt)
    THEN Array1([i \in DOMAIN raw_tracker_data[tt + 1] |->
                    ToInt(Column(raw_tracker_data[tt + 1], 1)[i])])
    ELSE Array1(<<>>)

\* a slip in the stored matrix: the acceptance threshold of line 108 is
\* applied to it, an overlap below 0.5 being stored as 0
Similarity_accepted_only(tt) ==
    LET n == GtIds(tt).shape[1]
        m == TrackerIds(tt).shape[1]
        ious == _calculate_box_ious(GtDets(tt).v, TrackerDets(tt).v)
    IN  IF n > 0 /\ m > 0
        THEN Array2([i \in 1..n |-> [j \in 1..m |->
                        IF 2 * ious[i][j][1] >= ious[i][j][2]
                        THEN ious[i][j] ELSE <<0, 1>>]], m)
        ELSE Zeros(n, m)

\* lines 105-106, 111-116: the overlap matrix of the unfiltered boxes, or
\* zeros when either side is empty
Similarity(tt) ==
    LET n == GtIds(tt).shape[1]
        m == TrackerIds(tt).shape[1]
    IN  IF n > 0 /\ m > 0
        THEN Array2(_calculate_box_ious(GtDets(tt).v, TrackerDets(tt).v), m)
        ELSE Zeros(n, m)

\* a slip in the mask: np.equal in place of np.not_equal
gt_to_keep_mask_equal(tt) ==
    [i \in DOMAIN gt_zero_marked(tt) |-> gt_zero_marked(tt)[i] = 0]

\* the sum of the entries of ious at the pairs of S, as <<numerator, divisor>>
RECURSIVE SumOver(_, _)
SumOver(ious, S) ==
    IF S = {} THEN <<0, 1>>
    ELSE LET p == CHOOSE q \in S : TRUE
             r == SumOver(ious, S \ {p})
             e == ious[p[1]][p[2]]
         IN  <<e[1] * r[2] + r[1] * e[2], e[2] * r[2]>>

\* the one-to-one assignments of min(n, m) rows to columns
Assignments(n, m) ==
    {S \in SUBSET ((1..n) \X (1..m)) :
        /\ Cardinality(S) = Min(n, m)
        /\ \A p, q \in S : p # q => (p[1] # q[1] /\ p[2] # q[2])}

\* line 107: scipy's linear_sum_assignment(-ious) returns one assignment of
\* least total cost, that is of largest total overlap; which one among equals
\* is scipy's choice
linear_sum_assignment(ious, n, m) ==
    {S \in Assignments(n, m) :
        \A S2 \in Assignments(n, m) :
            SumOver(ious, S)[1] * SumOver(ious, S2)[2]
                >= SumOver(ious, S2)[1] * SumOver(ious, S)[2]}

\* lines 108-110: the pairs with ious > 0.5 - eps, by numpy's indices; for a
\* quotient of whole numbers that is ious >= 1/2
actually_matched(ious, S) ==
    {<<p[1] - 1, p[2] - 1>> : p \in {q \in S : 2 * ious[q[1]][q[2]][1] >= ious[q[1]][q[2]][2]}}

\* lines 105-110: the values the locals match_rows, match_cols may hold after
\* the iteration for timestep tt; they keep their value when a side is empty
MatchOutcomes(tt) ==
    LET n == GtIds(tt).shape[1]
        m == TrackerIds(tt).shape[1]
    IN  IF n > 0 /\ m > 0
        THEN {actually_matched(Similarity(tt).v, S) :
                S \in linear_sum_assignment(Similarity(tt).v, n, m)}
        ELSE {matched}

\* line 119
gt_to_keep_mask(tt) ==
    [i \in DOMAIN gt_zero_marked(tt) |-> gt_zero_marked(tt)[i] # 0]

\* line 120
FilteredGtIds(tt) == Array1(MaskSelect(GtIds(tt).v, gt_to_keep_mask(tt)))

\* line 121
FilteredGtDets(tt) == Array2(MaskSelect(GtDets(tt).v, gt_to_keep_mask(tt)), 4)

\* a slip in the row filter: the matrix keeps the rows of the removed entries
Similarity_unfiltered(tt) == Similarity(tt)

\* lines 122-123: the same mask on the rows of the matrix, when it has rows
FilteredSimilarity(tt) ==
    LET sim == Similarity(tt)
    IN  IF sim.shape[1] > 0
        THEN Array2(MaskSelect(sim.v, gt_to_keep_mask(tt)), sim.shape[2])
        ELSE sim

----------------------------------------------------------------------------
(* Sequence Aligner: the counters, lines 125-137 *)

TimeRange == 0..(num_timesteps - 1)

\* the maximum of a non-empty integer array
np_max(v) == CHOOSE m \in {v[i] : i \in DOMAIN v} : \A i \in DOMAIN v : v[i] <= m

\* a slip in the id counter: the ids are taken before the flag filter
CountedGtIds_unfiltered(tt) == GtIds(tt).v

\* lines 132, 136-137 read data['gt_ids'][t], the filtered ids
CountedGtIds(tt) == data.gt_ids[tt].v

\* lines 131, 134-135 read data['tracker_ids'][t]
CountedTrackerIds(tt) == data.tracker_ids[tt].v

\* a slip in the id counters: the maximum of this timestep is assigned, not
\* combined with the maximum so far, so the result depends on the order
Accumulated_last_wins(d, tt) ==
    [d EXCEPT
        !.num_tracker_dets = @ + Len(CountedTrackerIds(tt)),
        !.num_gt_dets = @ + Len(CountedGtIds(tt)),
        !.num_tracker_ids =
            IF Len(CountedTrackerIds(tt)) > 0
            THEN np_max(CountedTrackerIds(tt)) + 1 ELSE @,
        !.num_gt_ids =
            IF Len(CountedGtIds(tt)) > 0
            THEN np_max(CountedGtIds(tt)) + 1 ELSE @]

\* lines 131-137: one iteration of the second loop
Accumulated(d, tt) ==
    [d EXCEPT
        !.num_tracker_dets = @ + Len(CountedTrackerIds(tt)),
        !.num_gt_dets = @ + Len(CountedGtIds(tt)),
        !.num_tracker_ids =
            IF Len(CountedTrackerIds(tt)) > 0
            THEN Max(@, np_max(CountedTrackerIds(tt)) + 1) ELSE @,
        !.num_gt_ids =
            IF Len(CountedGtIds(tt)) > 0
            THEN Max(@, np_max(CountedGtIds(tt)) + 1) ELSE @]

----------------------------------------------------------------------------
(* Inputs *)

GtIdValues == {0, 1}

TrackerIdValues == {0, 5}

\* flags 0, 1/Scale, 1, -1/Scale and -1 of a ground-truth row
GtFlagValues == {0, 1, Scale, 0 - 1, 0 - Scale}

\* confidence 1/Scale of a tracker row
ConfidenceValues == {1}

\* xywh boxes, one per id: overlaps 1, 1/3 and 0 occur between the two sides
GtBox(id) == IF id = 0 THEN <<0, 0, 10 * Scale, 10 * Scale>>
             ELSE <<5 * Scale, 0, 10 * Scale, 10 * Scale>>

TrackerBox(id) == IF id = 0 THEN <<0, 0, 10 * Scale, 10 * Scale>>
                  ELSE <<20 * Scale, 0, 10 * Scale, 10 * Scale>>

Frames == 1..MaxFrame

\* a blank line, a 6-field row, or a 7-field row with a flag
GtRows ==
    {<<>>}
    \cup {<<f * Scale, id * Scale>> \o GtBox(id) : f \in Frames, id \in GtIdValues}
    \cup {<<f * Scale, id * Scale>> \o GtBox(id) \o <<flag>> :
            f \in Frames, id \in GtIdValues, flag \in GtFlagValues}

\* a blank line, a 6-field row, or a 7-field row with a confidence
TrackerRows ==
    {<<>>}
    \cup {<<f * Scale, id * Scale>> \o TrackerBox(id) :
            f \in Frames, id \in TrackerIdValues}
    \cup {<<f * Scale, id * Scale>> \o TrackerBox(id) \o <<c>> :
            f \in Frames, id \in TrackerIdValues, c \in ConfidenceValues}

\* what may follow the seventh field of a row: nothing, a number or text
ExtraFields == {<<>>, <<Number(Scale)>>, <<Text>>}

\* 7-field rows with flag 0 or 1, with or without an eighth field
GtRowsExtra ==
    {<<f * Scale, id * Scale>> \o GtBox(id) \o <<flag>> \o x :
        f \in Frames, id \in GtIdValues, flag \in {0, Scale}, x \in ExtraFields}

\* 7-field rows, with or without an eighth field
TrackerRowsExtra ==
    {<<f * Scale, id * Scale>> \o TrackerBox(id) \o <<c>> \o x :
        f \in Frames, id \in TrackerIdValues, c \in ConfidenceValues,
        x \in ExtraFields}

FilesOver(rows) == UNION {[1..n -> rows] : n \in 0..MaxRows}

\* xywh boxes for the overlap builder: positive, shifted, contained, zero
\* width, negative width and height, negative width only
BoxUniverse ==
    {<<0, 0, 2, 2>>, <<1, 0, 2, 2>>, <<1, 1, 1, 1>>, <<0, 0, 0, 2>>,
     <<2, 2, -2, -2>>, <<1, 0, -1, 1>>}

BoxSets == UNION {[1..n -> BoxUniverse] : n \in 0..MaxBoxes}

----------------------------------------------------------------------------
(* load_and_preprocess_data as a state machine *)

Init ==
    /\ gt_file \in FilesOver(GtRows)
    /\ tracker_file \in FilesOver(TrackerRows)
    /\ raw_gt_data = <<>>
    /\ raw_tracker_data = <<>>
    /\ num_timesteps = 0
    /\ data = <<>>
    /\ t = 0
    /\ pc = "load_gt"
    /\ error = "none"
    /\ boxesA = <<>>
    /\ boxesB = <<>>
    /\ iouAB = None
    /\ iouBA = None
    /\ matched = {}
    /\ order = NoOrder

\* line 9
LoadGt ==
    /\ pc = "load_gt"
    /\ raw_gt_data' = _load_raw_file(gt_file)
    /\ pc' = "load_tracker"
    /\ UNCHANGED <<gt_file, tracker_file, raw_tracker_data, num_timesteps,
                   data, t, error>>
    /\ UNCHANGED iouVars
    /\ UNCHANGED <<matched, order>>

\* line 10
LoadTracker ==
    /\ pc = "load_tracker"
    /\ raw_tracker_data' = _load_raw_file(tracker_file)
    /\ pc' = "combine"
    /\ UNCHANGED <<gt_file, tracker_file, raw_gt_data, num_timesteps,
                   data, t, error>>
    /\ UNCHANGED iouVars
    /\ UNCHANGED <<matched, order>>

\* lines 12, 59-67: the number of timesteps and the lists of None
Combine ==
    /\ pc = "combine"
    /\ LET n == _combine_gt_and_tracker(raw_gt_data, raw_tracker_data)
       IN  /\ num_timesteps' = n
           /\ data' = [gt_ids |-> [i \in 0..(n - 1) |-> None],
                       tracker_ids |-> [i \in 0..(n - 1) |-> None],
                       gt_dets |-> [i \in 0..(n - 1) |-> None],
                       tracker_dets |-> [i \in 0..(n - 1) |-> None],
                       similarity_scores |-> [i \in 0..(n - 1) |-> None],
                       num_timesteps |-> n]
    /\ t' = 0
    /\ pc' = "preprocess"
    /\ UNCHANGED <<gt_file, tracker_file, raw_gt_data, raw_tracker_data, error>>
    /\ UNCHANGED iouVars
    /\ UNCHANGED <<matched, order>>

\* lines 69-123: one iteration of the first loop; an exception ends the call
PreprocessFrame ==
    /\ pc = "preprocess"
    /\ t < num_timesteps
    /\ IF FrameError(t) # "none"
       THEN /\ error' = FrameError(t)
            /\ pc' = "error"
            /\ UNCHANGED <<data, t, matched>>
       ELSE /\ data' = [data EXCEPT
                           !.gt_ids[t] = FilteredGtIds(t),
                           !.gt_dets[t] = FilteredGtDets(t),
                           !.tracker_ids[t] = TrackerIds(t),
                           !.tracker_dets[t] = TrackerDets(t),
                           !.similarity_scores[t] = FilteredSimilarity(t)]
            /\ matched' \in MatchOutcomes(t)
            /\ t' = t + 1
            /\ UNCHANGED <<pc, error>>
    /\ UNCHANGED <<gt_file, tracker_file, raw_gt_data, raw_tracker_data,
                   num_timesteps>>
    /\ UNCHANGED iouVars
    /\ UNCHANGED order

\* lines 125-128: the counters start at 0
StartCount ==
    /\ pc = "preprocess"
    /\ t = num_timesteps
    /\ data' = data @@ [num_tracker_dets |-> 0, num_gt_dets |-> 0,
                        num_tracker_ids |-> 0, num_gt_ids |-> 0]
    /\ t' = 0
    /\ pc' = "count"
    /\ UNCHANGED <<gt_file, tracker_file, raw_gt_data, raw_tracker_data,
                   num_timesteps, error>>
    /\ UNCHANGED iouVars
    /\ UNCHANGED <<matched, order>>

\* lines 130-137: one iteration of the second loop
Accumulate ==
    /\ pc = "count"
    /\ t < num_timesteps
    /\ data' = Accumulated(data, t)
    /\ t' = t + 1
    /\ UNCHANGED <<gt_file, tracker_file, raw_gt_data, raw_tracker_data,
                   num_timesteps, pc, error>>
    /\ UNCHANGED iouVars
    /\ UNCHANGED <<matched, order>>

\* lines 139, 15
Return ==
    /\ pc = "count"
    /\ t = num_timesteps
    /\ pc' = "done"
    /\ UNCHANGED <<gt_file, tracker_file, raw_gt_data, raw_tracker_data,
                   num_timesteps, data, t, error>>
    /\ UNCHANGED iouVars
    /\ UNCHANGED <<matched, order>>

Next ==
    \/ LoadGt
    \/ LoadTracker
    \/ Combine
    \/ PreprocessFrame
    \/ StartCount
    \/ Accumulate
    \/ Return

Spec == Init /\ [][Next]_vars

----------------------------------------------------------------------------
(* load_and_preprocess_data on files whose rows may carry an eighth field *)

InitExtra ==
    /\ gt_file \in FilesOver(GtRowsExtra)
    /\ tracker_file \in FilesOver(TrackerRowsExtra)
    /\ raw_gt_data = <<>>
    /\ raw_tracker_data = <<>>
    /\ num_timesteps = 0
    /\ data = <<>>
    /\ t = 0
    /\ pc = "load_gt"
    /\ error = "none"
    /\ boxesA = <<>>
    /\ boxesB = <<>>
    /\ iouAB = None
    /\ iouBA = None
    /\ matched = {}
    /\ order = NoOrder

SpecExtra == InitExtra /\ [][Next]_vars

----------------------------------------------------------------------------
(* The two loops of _preprocess_data with their iterations taken in any
   order: every timestep's arrays are built by the body of the first loop,
   then the counters are reduced by the body of the second loop *)

\* lines 70-123 for any timestep not built yet
ProcessAnyFrame ==
    /\ pc = "preprocess"
    /\ \E tt \in TimeRange :
          /\ data.gt_ids[tt] = None
          /\ IF FrameError(tt) # "none"
             THEN /\ error' = FrameError(tt)
                  /\ pc' = "error"
                  /\ UNCHANGED <<data, t, matched, order>>
             ELSE /\ data' = [data EXCEPT
                                 !.gt_ids[tt] = FilteredGtIds(tt),
                                 !.gt_dets[tt] = FilteredGtDets(tt),
                                 !.tracker_ids[tt] = TrackerIds(tt),
                                 !.tracker_dets[tt] = TrackerDets(tt),
                                 !.similarity_scores[tt] = FilteredSimilarity(tt)]
                  /\ matched' \in MatchOutcomes(tt)
                  /\ t' = tt
                  /\ order' = [order EXCEPT !.frames = Append(@, tt)]
                  /\ UNCHANGED <<pc, error>>
    /\ UNCHANGED <<gt_file, tracker_file, raw_gt_data, raw_tracker_data,
                   num_timesteps>>
    /\ UNCHANGED iouVars

\* lines 125-128, once every timestep is built
StartMerge ==
    /\ pc = "preprocess"
    /\ \A tt \in TimeRange : data.gt_ids[tt] # None
    /\ data' = data @@ [num_tracker_dets |-> 0, num_gt_dets |-> 0,
                        num_tracker_ids |-> 0, num_gt_ids |-> 0]
    /\ pc' = "count"
    /\ UNCHANGED <<gt_file, tracker_file, raw_gt_data, raw_tracker_data,
                   num_timesteps, t, error>>
    /\ UNCHANGED iouVars
    /\ UNCHANGED <<matched, order>>

\* lines 131-137 for any timestep not counted yet
MergeAnyFrame ==
    /\ pc = "count"
    /\ \E tt \in TimeRange :
          /\ \A i \in 1..Len(order.counts) : order.counts[i] # tt
          /\ data' = Accumulated(data, tt)
          /\ t' = tt
          /\ order' = [order EXCEPT !.counts = Append(@, tt)]
    /\ UNCHANGED <<gt_file, tracker_file, raw_gt_data, raw_tracker_data,
                   num_timesteps, pc, error>>
    /\ UNCHANGED iouVars
    /\ UNCHANGED matched

\* line 139, once every timestep is counted
ReturnMerged ==
    /\ pc = "count"
    /\ Len(order.counts) = num_timesteps
    /\ pc' = "done"
    /\ UNCHANGED <<gt_file, tracker_file, raw_gt_data, raw_tracker_data,
                   num_timesteps, data, t, error>>
    /\ UNCHANGED iouVars
    /\ UNCHANGED <<matched, order>>

NextAnyOrder ==
    \/ LoadGt
    \/ LoadTracker
    \/ Combine
    \/ ProcessAnyFrame
    \/ StartMerge
    \/ MergeAnyFrame
    \/ ReturnMerged

SpecAnyOrder == Init /\ [][NextAnyOrder]_vars

\* what the sequential loops of lines 69-137 leave in data: every timestep's
\* arrays from the first loop, then the counters after the first k
\* iterations of the second loop, taken from timestep 0 upwards
RECURSIVE SequentialLoop(_)
SequentialLoop(k) ==
    IF k = 0
    THEN [gt_ids |-> [i \in TimeRange |-> FilteredGtIds(i)],
          tracker_ids |-> [i \in TimeRange |-> TrackerIds(i)],
          gt_dets |-> [i \in TimeRange |-> FilteredGtDets(i)],
          tracker_dets |-> [i \in TimeRange |-> TrackerDets(i)],
          similarity_scores |-> [i \in TimeRange |-> FilteredSimilarity(i)],
          num_timesteps |-> num_timesteps,
          num_tracker_dets |-> 0, num_gt_dets |-> 0,
          num_tracker_ids |-> 0, num_gt_ids |-> 0]
    ELSE Accumulated(SequentialLoop(k - 1), k - 1)

----------------------------------------------------------------------------
(* _calculate_box_ious called on two box sets, in both orders *)

InitIoU ==
    /\ boxesA \in BoxSets
    /\ boxesB \in BoxSets
    /\ iouAB = None
    /\ iouBA = None
    /\ matched = {}
    /\ order = NoOrder
    /\ gt_file = <<>>
    /\ tracker_file = <<>>
    /\ raw_gt_data = <<>>
    /\ raw_tracker_data = <<>>
    /\ num_timesteps = 0
    /\ data = <<>>
    /\ t = 0
    /\ pc = "iou"
    /\ error = "none"

CallAB ==
    /\ pc = "iou"
    /\ iouAB = None
    /\ iouAB' = Array2(_calculate_box_ious(boxesA, boxesB), Len(boxesB))
    /\ UNCHANGED <<boxesA, boxesB, iouBA>>
    /\ UNCHANGED pipelineVars

CallBA ==
    /\ pc = "iou"
    /\ iouBA = None
    /\ matched = {}
    /\ order = NoOrder
    /\ iouBA' = Array2(_calculate_box_ious(boxesB, boxesA), Len(boxesA))
    /\ UNCHANGED <<boxesA, boxesB, iouAB>>
    /\ UNCHANGED pipelineVars

NextIoU ==
    \/ CallAB
    \/ CallBA

SpecIoU == InitIoU /\ [][NextIoU]_vars

----------------------------------------------------------------------------
(* What the properties read off the input files *)

\* the non-blank rows of frame f, in file order
RowsOfFrame(file, f) == SelectSeq(file, LAMBDA r : r # <<>> /\ r[1] = f * Scale)

RowId(r) == r[2] \div Scale

RowBox(r) == SubSeq(r, 3, 6)

IdsOf(rows) == [i \in DOMAIN rows |-> RowId(rows[i])]

BoxesOf(rows) == [i \in DOMAIN rows |-> RowBox(rows[i])]

FramesIn(file) == {r[1] \div Scale : r \in {file[i] : i \in DOMAIN file} \ {<<>>}}

Largest(S) == IF S = {} THEN 0 ELSE CHOOSE m \in S : \A x \in S : x <= m

\* the flag is present and is 0
FlaggedZero(r) == Len(r) >= 7 /\ r[7] = 0

\* the flag is absent or is not 0
FlagNonZero(r) == Len(r) < 7 \/ r[7] # 0

\* the flag is absent or is at least 1 in absolute value
FlagTruncatesNonZero(r) == Len(r) < 7 \/ r[7] >= Scale \/ r[7] <= 0 - Scale

Returned == pc = "done"

----------------------------------------------------------------------------
(* Properties *)

\* C1: on return, at every timestep the ground-truth ids, the ground-truth
\* boxes and the rows of the similarity matrix are equally many, and so are
\* the tracker ids, the tracker boxes and the columns of the matrix.
C1_ShapesAligned ==
    Returned =>
        \A tt \in TimeRange :
            LET sim == data.similarity_scores[tt]
                n == Len(data.gt_ids[tt].v)
                m == Len(data.tracker_ids[tt].v)
            IN  /\ Len(data.gt_dets[tt].v) = n
                /\ sim.shape = <<n, m>>
                /\ Len(sim.v) = n
                /\ \A i \in 1..Len(sim.v) : Len(sim.v[i]) = m
                /\ Len(data.tracker_dets[tt].v) = m
                /\ data.gt_ids[tt].shape = <<n>>
                /\ data.tracker_ids[tt].shape = <<m>>
                /\ data.gt_dets[tt].shape = <<n, 4>>
                /\ data.tracker_dets[tt].shape = <<m, 4>>

\* a returned run with a frame of two ground-truth rows, one of them removed
\* by the filter, and one tracker row
C1_Witness ==
    /\ Returned
    /\ \E tt \in TimeRange :
        /\ Len(RowsOfFrame(gt_file, tt + 1)) = 2
        /\ data.gt_ids[tt].shape = <<1>>
        /\ data.similarity_scores[tt].shape = <<1, 1>>

\* C2: a ground-truth row whose flag is 0 is not in the output: the frame
\* keeps no more entries than it has rows with another flag, its matrix has
\* as many rows as kept entries, and the row's id and box are absent unless
\* another row of the frame carries the same id.
C2_ZeroFlagRemoved ==
    Returned =>
        \A tt \in TimeRange :
            LET rows == RowsOfFrame(gt_file, tt + 1)
                others == SelectSeq(rows, LAMBDA r : ~FlaggedZero(r))
                ids == data.gt_ids[tt].v
                dets == data.gt_dets[tt].v
            IN  /\ Len(ids) <= Len(others)
                /\ Len(dets) <= Len(others)
                /\ Len(data.similarity_scores[tt].v) <= Len(others)
                /\ data.similarity_scores[tt].shape[1] <= Len(others)
                /\ \A i \in DOMAIN rows :
                      (FlaggedZero(rows[i])
                       /\ \A j \in DOMAIN others : RowId(others[j]) # RowId(rows[i]))
                      => /\ \A p \in DOMAIN ids : ids[p] # RowId(rows[i])
                         /\ \A p \in DOMAIN dets : dets[p] # RowBox(rows[i])

\* a returned run where a row flagged 0 has the box of a tracker row of its
\* frame (overlap 1), and another row flagged 0 lies in a frame without
\* tracker rows
C2_Witness ==
    /\ Returned
    /\ \E f1, f2 \in Frames :
        /\ \E i \in DOMAIN RowsOfFrame(gt_file, f1) :
            /\ FlaggedZero(RowsOfFrame(gt_file, f1)[i])
            /\ \E j \in DOMAIN RowsOfFrame(tracker_file, f1) :
                  RowBox(RowsOfFrame(tracker_file, f1)[j])
                      = RowBox(RowsOfFrame(gt_file, f1)[i])
        /\ RowsOfFrame(tracker_file, f2) = <<>>
        /\ \E i \in DOMAIN RowsOfFrame(gt_file, f2) :
              FlaggedZero(RowsOfFrame(gt_file, f2)[i])

\* C3 as stated: the kept entries of a frame are exactly its rows whose flag
\* is absent or differs from 0, in file order.
C3_KeptIffFlagNonZero ==
    Returned =>
        \A tt \in TimeRange :
            LET kept == SelectSeq(RowsOfFrame(gt_file, tt + 1), FlagNonZero)
            IN  /\ data.gt_ids[tt].v = IdsOf(kept)
                /\ data.gt_dets[tt].v = BoxesOf(kept)

\* C3, amended: the kept entries of a frame are exactly its rows whose flag
\* is absent or truncates to a non-zero integer (is at least 1 in absolute
\* value), in file order.
C3_KeptIffFlagTruncatesNonZero ==
    Returned =>
        \A tt \in TimeRange :
            LET kept == SelectSeq(RowsOfFrame(gt_file, tt + 1), FlagTruncatesNonZero)
            IN  /\ data.gt_ids[tt].v = IdsOf(kept)
                /\ data.gt_dets[tt].v = BoxesOf(kept)

\* a returned run with a frame of two rows, one kept with a negative flag and
\* one removed with a fractional flag
C3_Witness ==
    /\ Returned
    /\ \E tt \in TimeRange :
        LET rows == RowsOfFrame(gt_file, tt + 1)
        IN  /\ Len(rows) = 2
            /\ \E i, j \in DOMAIN rows :
                /\ Len(rows[i]) = 7 /\ rows[i][7] < 0 /\ FlagTruncatesNonZero(rows[i])
                /\ Len(rows[j]) = 7 /\ rows[j][7] # 0 /\ ~FlagTruncatesNonZero(rows[j])
            /\ Len(data.gt_ids[tt].v) = 1

\* every flag of the ground-truth file is a whole number
IntegerFlags ==
    \A i \in DOMAIN gt_file : Len(gt_file[i]) >= 7 => gt_file[i][7] % Scale = 0

\* C4 as stated, for whole-number flags: num_gt_ids is one plus the largest
\* id of any ground-truth row, flagged or not (0 without rows), and
\* num_tracker_ids one plus the largest id of any tracker row (0 without rows).
C4_NumIdsOverAllRows ==
    (Returned /\ IntegerFlags) =>
        LET gtIds == {RowId(gt_file[i]) :
                        i \in {k \in DOMAIN gt_file : gt_file[k] # <<>>}}
            trIds == {RowId(tracker_file[i]) :
                        i \in {k \in DOMAIN tracker_file : tracker_file[k] # <<>>}}
        IN  /\ data.num_gt_ids = IF gtIds = {} THEN 0 ELSE Largest(gtIds) + 1
            /\ data.num_tracker_ids = IF trIds = {} THEN 0 ELSE Largest(trIds) + 1

\* C4, amended: num_gt_ids is one plus the largest id among the ground-truth
\* rows the flag filter keeps (0 when it keeps none), so it drops when the
\* row carrying the largest id is flagged invalid; num_tracker_ids is one
\* plus the largest id of any tracker row (0 without rows).
C4_NumIdsOverKeptRows ==
    Returned =>
        LET gtIds == {RowId(gt_file[i]) :
                        i \in {k \in DOMAIN gt_file :
                                 gt_file[k] # <<>> /\ FlagTruncatesNonZero(gt_file[k])}}
            trIds == {RowId(tracker_file[i]) :
                        i \in {k \in DOMAIN tracker_file : tracker_file[k] # <<>>}}
        IN  /\ data.num_gt_ids = IF gtIds = {} THEN 0 ELSE Largest(gtIds) + 1
            /\ data.num_tracker_ids = IF trIds = {} THEN 0 ELSE Largest(trIds) + 1

\* a returned run where the row with the largest ground-truth id is flagged 0
\* and a row with a smaller id is kept, with tracker rows present
C4_Witness ==
    /\ Returned
    /\ \E i, j \in DOMAIN gt_file :
        /\ gt_file[i] # <<>> /\ gt_file[j] # <<>>
        /\ FlaggedZero(gt_file[i])
        /\ FlagTruncatesNonZero(gt_file[j])
        /\ RowId(gt_file[j]) < RowId(gt_file[i])
    /\ data.num_gt_ids = 1
    /\ data.num_tracker_ids = 6

\* C5: on return num_timesteps is the largest frame number of either file (0
\* when both are empty), every per-timestep list has the indices
\* 0..num_timesteps-1, the entry at index f-1 is built from the rows of frame
\* f, and without any row in either file every counter is 0.
C5_TimestepsAndIndexing ==
    Returned =>
        LET n == Largest(FramesIn(gt_file) \cup FramesIn(tracker_file))
        IN  /\ num_timesteps = n
            /\ data.num_timesteps = n
            /\ DOMAIN data.gt_ids = 0..(n - 1)
            /\ DOMAIN data.tracker_ids = 0..(n - 1)
            /\ DOMAIN data.gt_dets = 0..(n - 1)
            /\ DOMAIN data.tracker_dets = 0..(n - 1)
            /\ DOMAIN data.similarity_scores = 0..(n - 1)
            /\ \A f \in 1..n :
                /\ data.tracker_ids[f - 1].v = IdsOf(RowsOfFrame(tracker_file, f))
                /\ data.tracker_dets[f - 1].v = BoxesOf(RowsOfFrame(tracker_file, f))
                /\ data.gt_ids[f - 1].v =
                      IdsOf(SelectSeq(RowsOfFrame(gt_file, f), FlagTruncatesNonZero))
            /\ (FramesIn(gt_file) \cup FramesIn(tracker_file) = {}) =>
                  /\ n = 0
                  /\ data.num_gt_dets = 0 /\ data.num_tracker_dets = 0
                  /\ data.num_gt_ids = 0 /\ data.num_tracker_ids = 0

\* a returned run whose last frame comes from the tracker file alone, the
\* ground truth ending one frame earlier
C5_Witness ==
    /\ Returned
    /\ num_timesteps = MaxFrame
    /\ Largest(FramesIn(gt_file)) = MaxFrame - 1
    /\ Largest(FramesIn(tracker_file)) = MaxFrame
    /\ data.tracker_ids[MaxFrame - 1].shape = <<1>>
    /\ data.gt_ids[MaxFrame - 2].shape = <<1>>

\* the rows of frame f are malformed for the aligner: of unequal length, or
\* tracker rows without a column 6
MalformedFrame(f) ==
    \/ \E i, j \in DOMAIN RowsOfFrame(gt_file, f) :
          Len(RowsOfFrame(gt_file, f)[i]) # Len(RowsOfFrame(gt_file, f)[j])
    \/ \E i, j \in DOMAIN RowsOfFrame(tracker_file, f) :
          Len(RowsOfFrame(tracker_file, f)[i]) # Len(RowsOfFrame(tracker_file, f)[j])
    \/ \E i \in DOMAIN RowsOfFrame(tracker_file, f) :
          Len(RowsOfFrame(tracker_file, f)[i]) < 7
    \/ ~AllNumeric(RowsOfFrame(gt_file, f))
    \/ ~AllNumeric(RowsOfFrame(tracker_file, f))

\* C6: a frame absent from a source never makes the call fail and never
\* leaves None.  On return no entry is None; a side without rows for frame
\* t+1 has empty id and box arrays, and the matrix of such a frame is all
\* zero, of shape (kept ground-truth entries, tracker entries).  A call that
\* fails fails at a frame whose rows are malformed, never at a frame for
\* being absent.
C6_SparseFrames ==
    /\ Returned =>
        \A tt \in TimeRange :
            LET noGt == RowsOfFrame(gt_file, tt + 1) = <<>>
                noTr == RowsOfFrame(tracker_file, tt + 1) = <<>>
                sim == data.similarity_scores[tt]
            IN  /\ data.gt_ids[tt] # None /\ data.gt_dets[tt] # None
                /\ data.tracker_ids[tt] # None /\ data.tracker_dets[tt] # None
                /\ sim # None
                /\ noGt => /\ data.gt_ids[tt] = [shape |-> <<0>>, v |-> <<>>]
                           /\ data.gt_dets[tt] = [shape |-> <<0, 4>>, v |-> <<>>]
                /\ noTr => /\ data.tracker_ids[tt] = [shape |-> <<0>>, v |-> <<>>]
                           /\ data.tracker_dets[tt] = [shape |-> <<0, 4>>, v |-> <<>>]
                /\ (noGt \/ noTr) =>
                      /\ sim.shape = <<data.gt_ids[tt].shape[1],
                                       data.tracker_ids[tt].shape[1]>>
                      /\ Len(sim.v) = sim.shape[1]
                      /\ \A i \in DOMAIN sim.v :
                            /\ Len(sim.v[i]) = sim.shape[2]
                            /\ \A j \in DOMAIN sim.v[i] : sim.v[i][j] = <<0, 1>>
                /\ (noGt /\ ~noTr) =>
                      sim.shape = <<0, Len(RowsOfFrame(tracker_file, tt + 1))>>
                /\ (noGt /\ noTr) => sim.shape = <<0, 0>>
    /\ pc = "error" => MalformedFrame(t + 1)

\* a returned run with a first frame absent from both files and a second
\* frame that only the tracker file has, with two rows
C6_Witness ==
    /\ Returned
    /\ num_timesteps = 2
    /\ data.similarity_scores[0].shape = <<0, 0>>
    /\ data.similarity_scores[1].shape = <<0, 2>>
    /\ data.tracker_ids[1].shape = <<2>>

\* a returned run with a frame that only the ground-truth file has, of two
\* rows: the matrix is of shape (2, 0)
GtOnlyFrameReached ==
    /\ Returned
    /\ \E tt \in TimeRange : data.similarity_scores[tt].shape = <<2, 0>>

\* the pairs (i, j) of the matrix _calculate_box_ious(boxesA, boxesB)
PairsAB == (DOMAIN boxesA) \X (DOMAIN boxesB)

\* C7: every entry of the overlap matrix lies in [0, 1], for boxes of any
\* sign of width and height: the quotient has a positive divisor and
\* 0 <= intersection <= union.
C7_EntriesInUnitInterval ==
    iouAB # None =>
        /\ iouAB.shape = <<Len(boxesA), Len(boxesB)>>
        /\ \A p \in PairsAB :
            LET e == iouAB.v[p[1]][p[2]]
            IN  /\ e[2] > 0
                /\ 0 <= e[1]
                /\ e[1] <= e[2]

\* a computed matrix with a pair of a negative-width box and a zero-width
\* box, and a pair of two overlapping positive boxes with an overlap strictly
\* between 0 and 1
C7_Witness ==
    /\ iouAB # None
    /\ \E p \in PairsAB : boxesA[p[1]][3] < 0 /\ boxesB[p[2]][3] = 0
    /\ \E p \in PairsAB :
          0 < iouAB.v[p[1]][p[2]][1] /\ iouAB.v[p[1]][p[2]][1] < iouAB.v[p[1]][p[2]][2]

C9_Symmetric ==
    (iouAB # None /\ iouBA # None) =>
        /\ iouBA.shape = <<iouAB.shape[2], iouAB.shape[1]>>
        /\ \A p \in PairsAB : iouAB.v[p[1]][p[2]] = iouBA.v[p[2]][p[1]]

\* both matrices computed for two sets of two boxes, the matrix not equal to
\* its own transpose, with a pair of different boxes of positive overlap and
\* a pair of two degenerate boxes, whose union is not positive
C9_Witness ==
    /\ iouAB # None /\ iouBA # None
    /\ Len(boxesA) = 2 /\ Len(boxesB) = 2
    /\ iouAB.v[1][2] # iouAB.v[2][1]
    /\ \E p \in PairsAB :
        /\ boxesA[p[1]] # boxesB[p[2]]
        /\ iouAB.v[p[1]][p[2]][1] > 0
    /\ \E p \in PairsAB :
        /\ boxesA[p[1]][3] * boxesA[p[1]][4] <= 0
        /\ boxesB[p[2]][3] * boxesB[p[2]][4] <= 0

\* C10 as stated: a tracker file whose rows all have exactly 6 fields, beside
\* a ground-truth file whose rows all have 6 fields, is aligned without error.
C10_SixFieldTrackerAccepted ==
    (/\ \A i \in DOMAIN tracker_file : Len(tracker_file[i]) = 6
     /\ \A i \in DOMAIN gt_file : Len(gt_file[i]) = 6)
    => pc # "error"

\* every row of both files has seven fields or more
SevenFieldRows ==
    /\ \A i \in DOMAIN gt_file : Len(gt_file[i]) >= 7
    /\ \A i \in DOMAIN tracker_file : Len(tracker_file[i]) >= 7

\* C11 as stated: fields after the seventh, numeric or text, on any of the
\* rows, cause no error, and the returned entries are those of the rows cut
\* to their first seven fields.
C11_ExtraFieldsIgnored ==
    SevenFieldRows =>
        /\ pc # "error"
        /\ Returned =>
            \A tt \in TimeRange :
                LET kept == SelectSeq(RowsOfFrame(gt_file, tt + 1), FlagTruncatesNonZero)
                    trk == RowsOfFrame(tracker_file, tt + 1)
                IN  /\ data.gt_ids[tt].v = IdsOf(kept)
                    /\ data.gt_dets[tt].v = BoxesOf(kept)
                    /\ data.tracker_ids[tt].v = IdsOf(trk)
                    /\ data.tracker_dets[tt].v = BoxesOf(trk)

\* a returned run with a frame whose rows all carry a numeric eighth field,
\* on both sides: such extra fields are ignored
UniformExtraFieldsReached ==
    /\ Returned
    /\ \E tt \in TimeRange :
        /\ Len(RowsOfFrame(gt_file, tt + 1)) = 2
        /\ \A i \in DOMAIN RowsOfFrame(gt_file, tt + 1) :
              Len(RowsOfFrame(gt_file, tt + 1)[i]) = 8
        /\ RowsOfFrame(tracker_file, tt + 1) # <<>>
        /\ \A i \in DOMAIN RowsOfFrame(tracker_file, tt + 1) :
              Len(RowsOfFrame(tracker_file, tt + 1)[i]) = 8

\* C12 as stated: the assignment and the 0.5 threshold leave no mark on the
\* output.  At every timestep the tracker ids and boxes are those of all the
\* tracker rows of the frame, in file order, and the matrix is the full
\* pairwise overlap matrix of the frame's boxes less exactly the rows of the
\* ground-truth entries whose flag is 0.
C12_FullMatrixLessZeroFlagRows ==
    Returned =>
        \A tt \in TimeRange :
            LET kept == SelectSeq(RowsOfFrame(gt_file, tt + 1), FlagNonZero)
                trk == RowsOfFrame(tracker_file, tt + 1)
            IN  /\ data.tracker_ids[tt].v = IdsOf(trk)
                /\ data.tracker_dets[tt].v = BoxesOf(trk)
                /\ data.similarity_scores[tt].shape = <<Len(kept), Len(trk)>>
                /\ data.similarity_scores[tt].v
                      = _calculate_box_ious(BoxesOf(kept), BoxesOf(trk))

\* C12, amended: the same, the rows removed from the matrix being exactly
\* those of the ground-truth entries whose flag truncates to 0 (a flag
\* strictly between -1 and 1).
C12_FullMatrixLessTruncatedFlagRows ==
    Returned =>
        \A tt \in TimeRange :
            LET kept == SelectSeq(RowsOfFrame(gt_file, tt + 1), FlagTruncatesNonZero)
                trk == RowsOfFrame(tracker_file, tt + 1)
            IN  /\ data.tracker_ids[tt].v = IdsOf(trk)
                /\ data.tracker_dets[tt].v = BoxesOf(trk)
                /\ data.similarity_scores[tt].shape = <<Len(kept), Len(trk)>>
                /\ data.similarity_scores[tt].v
                      = _calculate_box_ious(BoxesOf(kept), BoxesOf(trk))

\* a returned run of one frame with two ground-truth rows and one tracker
\* row: the assignment pairs the tracker row with the first ground-truth row,
\* the second stays unmatched with an overlap of 1/3, below the threshold,
\* and both entries are in the matrix
C12_Witness ==
    /\ Returned
    /\ num_timesteps = 1
    /\ matched = {<<0, 0>>}
    /\ data.similarity_scores[0].shape = <<2, 1>>
    /\ data.similarity_scores[0].v = << << <<1, 1>> >>, << <<1, 3>> >> >>
    /\ data.tracker_ids[0].shape = <<1>>

\* a returned run where the threshold rejects every pair of the assignment
\* and the matrix still holds the overlap 1/3
NoPairAcceptedReached ==
    /\ Returned
    /\ num_timesteps = 1
    /\ matched = {}
    /\ data.similarity_scores[0].v = << << <<1, 3>> >> >>

\* both loops are over: every timestep was built and counted once
AllTaken ==
    /\ Len(order.frames) = num_timesteps
    /\ Len(order.counts) = num_timesteps
    /\ \A tt \in TimeRange :
          /\ \E i \in 1..num_timesteps : order.frames[i] = tt
          /\ \E i \in 1..num_timesteps : order.counts[i] = tt

\* the structure of the sequential loop is what Spec returns
SequentialLoopIsSpec == Returned => data = SequentialLoop(num_timesteps)

\* C13: with the timesteps built in any order and then counted in any order,
\* the structure returned is exactly the one the sequential loops return,
\* the arrays of timestep tt being those of the rows of frame tt + 1 alone
\* and the four counters the sums and maxima of the sequential loop; and the
\* call fails in any order exactly when some frame makes the sequential loop
\* fail.
C13_AnyOrderSameStructure ==
    /\ Returned =>
          /\ AllTaken
          /\ data = SequentialLoop(num_timesteps)
          /\ \A tt \in TimeRange :
                LET gt == SelectSeq(RowsOfFrame(gt_file, tt + 1),
                                    FlagTruncatesNonZero)
                    trk == RowsOfFrame(tracker_file, tt + 1)
                IN  /\ data.gt_ids[tt].v = IdsOf(gt)
                    /\ data.gt_dets[tt].v = BoxesOf(gt)
                    /\ data.tracker_ids[tt].v = IdsOf(trk)
                    /\ data.tracker_dets[tt].v = BoxesOf(trk)
                    /\ data.similarity_scores[tt].v
                          = _calculate_box_ious(BoxesOf(gt), BoxesOf(trk))
          /\ \A tt \in TimeRange : FrameError(tt) = "none"
    /\ pc = "error" => \E tt \in TimeRange : FrameError(tt) # "none"

\* a returned run of two frames built and counted from the last to the
\* first, the larger ids being in the first frame
C13_Witness ==
    /\ Returned
    /\ num_timesteps = 2
    /\ order = [frames |-> <<1, 0>>, counts |-> <<1, 0>>]
    /\ data.gt_ids[0].v = <<1>>
    /\ data.gt_ids[1].v = <<0>>
    /\ data.tracker_ids[0].v = <<5>>
    /\ data.tracker_ids[1].v = <<0>>
    /\ data.num_gt_ids = 2
    /\ data.num_tracker_ids = 6
    /\ data.num_gt_dets = 2

====
